---- MODULE Spec2Model ----
(***************************************************************************)
(* Model of special_character_replacer/__main__.py: the tool that restores *)
(* special letters (ü, ß, ...) from their ASCII alternative spellings.     *)
(*                                                                         *)
(* A Python str is a sequence of one-character strings.  Indices of spans  *)
(* are Python's: 0-based, half-open (start, end).                          *)
(***************************************************************************)
EXTENDS Integers, Sequences, FiniteSets, TLC

VARIABLES
    text,                   \* the input text read in main
    FORCE,                  \* ARGS.force_all
    known_words,            \* the dictionary, prepare_processed_dictionary(...)
    specials_to_regex_alts, \* ordered mapping: special letter -> pattern
    lines,                  \* text.splitlines()
    li,                     \* index (1-based) of the line being processed
    items,                  \* re.split(word_regex, line)
    ii,                     \* index (1-based) of the item being processed
    processed_line,         \* list of emitted items of the current line
    processed_lines,        \* list of processed lines
    new_text,               \* the processed text, printed or copied at the end
    cur_item,               \* the item as taken from items by the loop
    out_item,               \* the item as appended to processed_line
    is_word,
    is_special_word,
    spans_to_substitutions, \* ordered dict: span -> replacement
    span_combinations,
    candidates,
    legal_candidates,
    pc,                     \* position in main
    exc,                    \* the exception main died of, "" if none
    test_iterable,          \* tests: the iterable of the call under test
    test_key,               \* tests: its key, "len" or "None"
    test_result             \* tests: what the call ended with

vars == << text, FORCE, known_words, specials_to_regex_alts, lines, li, items,
           ii, processed_line, processed_lines, new_text, cur_item, out_item,
           is_word, is_special_word, spans_to_substitutions, span_combinations,
           candidates, legal_candidates, pc, exc,
           test_iterable, test_key, test_result >>

\* What main never touches: the parameters of test_distinct_highest_element.
test_vars == << test_iterable, test_key, test_result >>

-----------------------------------------------------------------------------
(* Bounds of the model. *)

\* An input text is the concatenation of at most MaxPieces pieces.
MaxPieces == 3

\* The iterables handed to distinct_highest_element have at most MaxIterable
\* elements.
MaxIterable == 3

\* Forced-mode selection is handed lists of at most MaxCombinations
\* combinations.
MaxCombinations == 2

-----------------------------------------------------------------------------
(* Characters and the str methods the program uses on them. *)

\* str.lower(), one character.
Lower1(c) ==
    CASE c = "U" -> "u"
      [] c = "E" -> "e"
      [] c = "S" -> "s"
      [] c = "B" -> "b"
      [] c = "Ü" -> "ü"
      [] c = "Ä" -> "ä"
      [] c = "Ö" -> "ö"
      [] OTHER -> c

\* str.upper(), one character: a string, since 'ß'.upper() is 'SS'.
Upper1(c) ==
    CASE c = "u" -> <<"U">>
      [] c = "e" -> <<"E">>
      [] c = "s" -> <<"S">>
      [] c = "b" -> <<"B">>
      [] c = "ü" -> <<"Ü">>
      [] c = "ä" -> <<"Ä">>
      [] c = "ö" -> <<"Ö">>
      [] c = "ß" -> <<"S", "S">>
      [] OTHER -> <<c>>

\* str.casefold(), one character: a string, since 'ß'.casefold() is 'ss'.
CaseFold1(c) == IF c = "ß" THEN <<"s", "s">> ELSE <<Lower1(c)>>

\* str.isupper() of one character.
IsUpper1(c) == c \in {"U", "E", "S", "B", "Ü", "Ä", "Ö"}

\* Whether the character matches \w.
IsWordChar(c) ==
    c \in {"u", "e", "s", "b", "a", "o", "U", "E", "S", "B",
           "ü", "ä", "ö", "ß", "Ü", "Ä", "Ö"}

RECURSIVE Flatten(_)
\* "".join(strs)
Flatten(strs) ==
    IF strs = <<>> THEN <<>> ELSE Head(strs) \o Flatten(Tail(strs))

RECURSIVE Join(_, _)
\* separator.join(strs)
Join(separator, strs) ==
    IF strs = <<>> THEN <<>>
    ELSE IF Len(strs) = 1 THEN strs[1]
    ELSE strs[1] \o separator \o Join(separator, Tail(strs))

\* str.lower()
Lower(s) == [i \in 1..Len(s) |-> Lower1(s[i])]

\* str.upper()
Upper(s) == Flatten([i \in 1..Len(s) |-> Upper1(s[i])])

\* str.casefold()
CaseFold(s) == Flatten([i \in 1..Len(s) |-> CaseFold1(s[i])])

\* Python's `element in string` for strings: substring test.
Contains(element, string) ==
    \E i \in 0..(Len(string) - Len(element)) :
        SubSeq(string, i + 1, i + Len(element)) = element

\* cf_contains
cf_contains(element, string) == Contains(CaseFold(element), CaseFold(string))

\* string[:end] and string[start:] of Python, 0-based.
SliceTo(string, end) == SubSeq(string, 1, end)
SliceFrom(string, start) == SubSeq(string, start + 1, Len(string))

-----------------------------------------------------------------------------
(* Inputs. *)

\* language_specials.json for "de": special letter -> alternative spelling,
\* in the file's order.
LANGUAGE_SPECIALS ==
    << [k |-> <<"ä">>, v |-> <<"a", "e">>],
       [k |-> <<"ö">>, v |-> <<"o", "e">>],
       [k |-> <<"ü">>, v |-> <<"u", "e">>],
       [k |-> <<"ß">>, v |-> <<"s", "s">>] >>

\* The texts are built from these pieces.
Pieces ==
    { <<"u", "e">>, <<"U", "e">>, <<"S", "S">>, <<"ß">>, <<"s">>,
      <<" ">>, <<"\n">>, <<"\r">> }

Texts ==
    { Flatten(p) : p \in UNION { [1..n -> Pieces] : n \in 0..MaxPieces } }

\* The dictionaries a run may have loaded.
KnownWordChoices ==
    { {},
      { <<"ü", "s">>, <<"u", "e", "s">>, <<"ü", "u", "e">>, <<"ü", "ü">>,
        <<"ß">> },
      { <<"ü", "s">>, <<"Ü", "s">>, <<"ü">>, <<"u", "e", "ü">>,
        <<"s", "ß">>, <<"ü", "ß">>, <<"u", "e", "s", "s">>,
        <<"ü", "ü", "ü">>, <<"U", "e", "S", "S">> } }

-----------------------------------------------------------------------------
(* text.splitlines() *)

IsLineBreak(c) == c \in {"\n", "\r"}

RECURSIVE SplitLinesFrom(_, _, _)
\* The lines of s from 1-based position i on, cur being the line begun.
SplitLinesFrom(s, i, cur) ==
    IF i > Len(s) THEN (IF cur = <<>> THEN <<>> ELSE <<cur>>)
    ELSE IF s[i] = "\r" /\ i < Len(s) /\ s[i + 1] = "\n"
         THEN <<cur>> \o SplitLinesFrom(s, i + 2, <<>>)
    ELSE IF IsLineBreak(s[i])
         THEN <<cur>> \o SplitLinesFrom(s, i + 1, <<>>)
    ELSE SplitLinesFrom(s, i + 1, Append(cur, s[i]))

splitlines(s) == SplitLinesFrom(s, 1, <<>>)

-----------------------------------------------------------------------------
(* re.split(word_regex, line), word_regex = (\w+) with one capture group:  *)
(* non-word, word, non-word, ..., non-word; the non-words may be empty.    *)

RECURSIVE ReSplitFrom(_, _, _, _)
\* cur is the item begun, inWord whether it is a run of word characters.
ReSplitFrom(line, i, cur, inWord) ==
    IF i > Len(line) THEN (IF inWord THEN <<cur, <<>>>> ELSE <<cur>>)
    ELSE IF IsWordChar(line[i]) = inWord
         THEN ReSplitFrom(line, i + 1, Append(cur, line[i]), inWord)
    ELSE <<cur>> \o ReSplitFrom(line, i + 1, <<line[i]>>, ~inWord)

\* Mutant: the pattern without its capture group, \w+: re.split then drops
\* the words and returns the non-words only.
re_split_without_group(line) ==
    LET all == ReSplitFrom(line, 1, <<>>, FALSE)
    IN  [j \in 1..((Len(all) + 1) \div 2) |-> all[2 * j - 1]]

\* Mutant: the empty strings at the ends of the split are dropped.
re_split_dropping_empty(line) ==
    SelectSeq(ReSplitFrom(line, 1, <<>>, FALSE), LAMBDA t : t # <<>>)

re_split(line) == ReSplitFrom(line, 1, <<>>, FALSE)

\* bool(re.match(word_regex, item))
re_match_word(item) == item # <<>> /\ IsWordChar(item[1])

-----------------------------------------------------------------------------
(* re.finditer(regex, item) for a literal pattern compiled with            *)
(* re.IGNORECASE: the spans of the non-overlapping matches, left to right. *)

\* One character of the item against one of the pattern, ignoring case.
MatchChar(p, c) == Lower1(p) = Lower1(c)

MatchAt(pattern, item, pos) ==
    /\ pos + Len(pattern) <= Len(item)
    /\ \A k \in 1..Len(pattern) : MatchChar(pattern[k], item[pos + k])

RECURSIVE FindIterFrom(_, _, _)
\* pos is 0-based.
FindIterFrom(pattern, item, pos) ==
    IF pos + Len(pattern) > Len(item) THEN <<>>
    ELSE IF MatchAt(pattern, item, pos)
         THEN << <<pos, pos + Len(pattern)>> >>
              \o FindIterFrom(pattern, item, pos + Len(pattern))
    ELSE FindIterFrom(pattern, item, pos + 1)

\* Mutant: a pattern that also matches the empty string at the start.
re_finditer_with_empty_match(pattern, item) ==
    << <<0, 0>> >> \o FindIterFrom(pattern, item, 0)

re_finditer(pattern, item) == FindIterFrom(pattern, item, 0)

\* match.group() of the match at span.
MatchGroup(item, span) == SubSeq(item, span[1] + 1, span[2])

-----------------------------------------------------------------------------
(* The dict spans_to_substitutions: a sequence of entries in insertion     *)
(* order, the keys unique.                                                 *)

DictKeys(d) == [i \in 1..Len(d) |-> d[i].key]

DictHas(d, key) == \E i \in 1..Len(d) : d[i].key = key

\* d[key]
DictGet(d, key) == d[CHOOSE i \in 1..Len(d) : d[i].key = key].val

\* d[key] = val
DictSet(d, key, val) ==
    IF DictHas(d, key)
    THEN [i \in 1..Len(d) |->
            IF d[i].key = key THEN [key |-> key, val |-> val] ELSE d[i]]
    ELSE Append(d, [key |-> key, val |-> val])

-----------------------------------------------------------------------------
(* itertools.combinations and combinations_any_length *)

RECURSIVE combinations(_, _)
\* itertools.combinations(iterable, r): the r-length subsequences, in the
\* lexicographic order of their positions.
combinations(iterable, r) ==
    IF r = 0 THEN << <<>> >>
    ELSE IF Len(iterable) < r THEN <<>>
    ELSE LET withHead == combinations(Tail(iterable), r - 1)
         IN  [j \in 1..Len(withHead) |-> <<Head(iterable)>> \o withHead[j]]
             \o combinations(Tail(iterable), r)

RECURSIVE CombinationsFromLength(_, _)
\* The combinations of lengths i, i + 1, ..., len(iterable).
CombinationsFromLength(iterable, i) ==
    IF i > Len(iterable) THEN <<>>
    ELSE combinations(iterable, i) \o CombinationsFromLength(iterable, i + 1)

\* Mutant: the lengths stop one short, the combination of all is not yielded.
combinations_any_length_without_longest(iterable) ==
    LET upTo[i \in 0..Len(iterable)] ==
            IF i = 0 THEN <<>> ELSE upTo[i - 1] \o combinations(iterable, i)
    IN  IF iterable = <<>> THEN <<>> ELSE upTo[Len(iterable) - 1]

\* Mutant: the longest combinations first, lengths len(iterable) down to 1.
combinations_any_length_longest_first(iterable) ==
    LET down[i \in 0..Len(iterable)] ==
            IF i = 0 THEN <<>> ELSE combinations(iterable, i) \o down[i - 1]
    IN  down[Len(iterable)]

\* Mutant: enumerate without start=1, so the empty combination is yielded
\* and the lengths run from 0.
combinations_any_length_from_zero(iterable) ==
    CombinationsFromLength(iterable, 0)

\* for i, _ in enumerate(iterable, start=1): ... combinations(iterable, r=i)
combinations_any_length(iterable) == CombinationsFromLength(iterable, 1)

-----------------------------------------------------------------------------
(* sorted() *)

\* Python's < on spans (tuples of two ints).
SpanLess(a, b) == a[1] < b[1] \/ (a[1] = b[1] /\ a[2] < b[2])

RECURSIVE InsertDescending(_, _)
\* x put into the descending list after the elements not less than it.
InsertDescending(sortedList, x) ==
    IF sortedList = <<>> THEN <<x>>
    ELSE IF SpanLess(Head(sortedList), x) THEN <<x>> \o sortedList
    ELSE <<Head(sortedList)>> \o InsertDescending(Tail(sortedList), x)

\* Mutant: sorted(spans), without reverse=True.
SortedReverse_ascending(spans) ==
    LET sorted[n \in 0..Len(spans)] ==
            IF n = 0 THEN <<>>
            ELSE LET before == sorted[n - 1]
                     k == Cardinality({i \in 1..Len(before) :
                                          SpanLess(before[i], spans[n])})
                 IN  SubSeq(before, 1, k) \o <<spans[n]>>
                         \o SubSeq(before, k + 1, Len(before))
    IN  sorted[Len(spans)]

\* Mutant: the spans are taken in the order they are listed in, not sorted.
SortedReverse_as_listed(spans) == spans

RECURSIVE SortedReverse(_)
\* sorted(spans, reverse=True)
SortedReverse(spans) ==
    IF spans = <<>> THEN <<>>
    ELSE InsertDescending(SortedReverse(SubSeq(spans, 1, Len(spans) - 1)),
                          spans[Len(spans)])

RECURSIVE TupleLess(_, _)
\* a < b for two Python tuples of ints: lexicographic.
TupleLess(a, b) ==
    IF b = <<>> THEN FALSE
    ELSE IF a = <<>> THEN TRUE
    ELSE IF Head(a) # Head(b) THEN Head(a) < Head(b)
    ELSE TupleLess(Tail(a), Tail(b))

\* key(x) < key(y), or x < y when key is None.
KeyLess(key, x, y) ==
    IF key = "len" THEN Len(x) < Len(y) ELSE TupleLess(x, y)

RECURSIVE InsertByKey(_, _, _)
\* x put into the ascending list after the elements whose key is not greater.
InsertByKey(sortedList, x, key) ==
    IF sortedList = <<>> THEN <<x>>
    ELSE IF KeyLess(key, x, Head(sortedList))
         THEN <<x>> \o sortedList
    ELSE <<Head(sortedList)>> \o InsertByKey(Tail(sortedList), x, key)

RECURSIVE SortedByKey(_, _)
\* sorted(iterable, key=key): ascending and stable.
SortedByKey(iterable, key) ==
    IF iterable = <<>> THEN <<>>
    ELSE InsertByKey(SortedByKey(SubSeq(iterable, 1, Len(iterable) - 1), key),
                     iterable[Len(iterable)], key)

-----------------------------------------------------------------------------
(* distinct_highest_element: what a call ends with.  raised is the         *)
(* exception ("" for a normal return), isNone tells a returned None.       *)

Return(x) == [raised |-> "", isNone |-> FALSE, value |-> x]
ReturnNone == [raised |-> "", isNone |-> TRUE, value |-> <<>>]
Raise(e) == [raised |-> e, isNone |-> FALSE, value |-> <<>>]

\* Mutant: the last element as it comes, the iterable not sorted.
distinct_highest_element_unsorted(iterable, key) ==
    LET n == Len(iterable)
    IN  IF n = 0 THEN Raise("IndexError")
        ELSE IF n = 1 THEN Return(iterable[n])
        ELSE IF KeyLess(key, iterable[n - 1], iterable[n])
             THEN Return(iterable[n])
        ELSE ReturnNone

\* Mutant: the empty iterable is answered with None.
distinct_highest_element_none_on_empty(iterable, key) ==
    LET sortedIterable == SortedByKey(iterable, key)
        n == Len(sortedIterable)
    IN  IF n = 0 THEN ReturnNone
        ELSE IF n = 1 THEN Return(sortedIterable[n])
        ELSE IF KeyLess(key, sortedIterable[n - 1], sortedIterable[n])
             THEN Return(sortedIterable[n])
        ELSE IF key = "None" THEN Raise("TypeError")
        ELSE ReturnNone

\* key is "len" or "None".
distinct_highest_element(iterable, key) ==
    LET sortedIterable == SortedByKey(iterable, key)
        n == Len(sortedIterable)
    IN  IF n = 0 THEN Raise("IndexError")
        ELSE IF n = 1 THEN Return(sortedIterable[n])
        ELSE IF key = "None" /\ TupleLess(sortedIterable[n - 1], sortedIterable[n])
             THEN Return(sortedIterable[n])
        ELSE IF key = "None" THEN Raise("TypeError")
        ELSE IF KeyLess(key, sortedIterable[n - 1], sortedIterable[n])
             THEN Return(sortedIterable[n])
        ELSE ReturnNone

-----------------------------------------------------------------------------
(* substitute_spans *)

RECURSIVE SubstituteEach(_, _, _)
\* The for loop over the sorted spans.
SubstituteEach(string, spans, d) ==
    IF spans = <<>> THEN string
    ELSE LET start == Head(spans)[1]
             end == Head(spans)[2]
             substitution == DictGet(d, Head(spans))
         IN  SubstituteEach(SliceTo(string, start) \o substitution
                                \o SliceFrom(string, end),
                            Tail(spans), d)

\* Mutant: the spans are applied front to back (sorted without reverse=True).
substitute_spans_front_to_back(string, spans, d) ==
    LET descending == SortedReverse(spans)
        n == Len(descending)
    IN  SubstituteEach(string, [j \in 1..n |-> descending[n + 1 - j]], d)

substitute_spans(string, spans, d) ==
    SubstituteEach(string, SortedReverse(spans), d)

-----------------------------------------------------------------------------
(* represent_strings, with the default separator and delimiters *)

Repeat(s, n) == IF n = 0 THEN <<>> ELSE s

\* Mutant: the delimiters are added whatever the number of strings.
represent_strings_always_delimited(strings) ==
    <<"[">> \o Join(<<"|">>, strings) \o <<"]">>

represent_strings(strings) ==
    LET separator == <<"|">>
        multiple_strings == IF Len(strings) > 1 THEN 1 ELSE 0
        left == Repeat(<<"[">>, multiple_strings)
        right == Repeat(<<"]">>, multiple_strings)
    IN  left \o Join(separator, strings) \o right

-----------------------------------------------------------------------------
(* main: the set-up before the loops *)

\* {k.lower(): re.compile(v.casefold(), re.IGNORECASE) for k, v in ...}
SpecialsToRegexAlts(specials) ==
    [i \in 1..Len(specials) |->
        [letter |-> Lower(specials[i].k), pattern |-> CaseFold(specials[i].v)]]

-----------------------------------------------------------------------------
(* main: the body of the loop over the items of a line *)

\* any(cf_contains(special_alt_letter.pattern, item) for ... in ....values())
ContainsPotentialSpecials(item, specials) ==
    \E i \in 1..Len(specials) : cf_contains(specials[i].pattern, item)

\* any(letter.isupper() for letter in match.group())
AnyUpper(group) == \E i \in 1..Len(group) : IsUpper1(group[i])

RECURSIVE SpansOfLetter(_, _, _, _)
\* The loop over the matches of one regex; special_letter is the loop
\* variable of the outer loop, reassigned at every match.
SpansOfLetter(d, special_letter, matches, item) ==
    IF matches = <<>> THEN d
    ELSE LET newLetter == IF AnyUpper(MatchGroup(item, Head(matches)))
                          THEN Upper(special_letter)
                          ELSE Lower(special_letter)
         IN  SpansOfLetter(DictSet(d, Head(matches), newLetter), newLetter,
                           Tail(matches), item)

RECURSIVE FindSpans(_, _, _, _)
\* The loop over specials_to_regex_alts.items(), from its i-th entry on.
FindSpans(d, specials, i, item) ==
    IF i > Len(specials) THEN d
    ELSE FindSpans(SpansOfLetter(d, specials[i].letter,
                                 re_finditer(specials[i].pattern, item), item),
                   specials, i + 1, item)

\* Mutant: the lowercased form is not looked up.
IsLegal_verbatim_only(candidate, known) == candidate \in known

\* candidate in known_words or candidate.lower() in known_words
IsLegal(candidate, known) == candidate \in known \/ Lower(candidate) \in known

RECURSIVE LegalCandidates_lowercased(_, _)
\* Mutant: the form found in the dictionary is kept, not the candidate.
LegalCandidates_lowercased(cands, known) ==
    IF cands = <<>> THEN <<>>
    ELSE (IF Head(cands) \in known THEN <<Head(cands)>>
          ELSE IF Lower(Head(cands)) \in known THEN <<Lower(Head(cands))>>
          ELSE <<>>)
         \o LegalCandidates_lowercased(Tail(cands), known)

RECURSIVE LegalCandidates_reversed(_, _)
\* Mutant: the legal candidates are collected last first.
LegalCandidates_reversed(cands, known) ==
    IF cands = <<>> THEN <<>>
    ELSE LegalCandidates_reversed(Tail(cands), known)
         \o (IF IsLegal(Head(cands), known) THEN <<Head(cands)>> ELSE <<>>)

RECURSIVE LegalCandidates(_, _)
\* [candidate for candidate in candidates if ...]
LegalCandidates(cands, known) ==
    IF cands = <<>> THEN <<>>
    ELSE (IF IsLegal(Head(cands), known) THEN <<Head(cands)>> ELSE <<>>)
         \o LegalCandidates(Tail(cands), known)

\* The FORCE branch: the legal candidates, or the exception it dies of.
ForcedCandidates(item, combos, d) ==
    LET most_spans == distinct_highest_element(combos, "len")
    IN  IF most_spans.raised # "" THEN [raised |-> most_spans.raised, legal |-> <<>>]
        ELSE IF most_spans.isNone \/ most_spans.value = <<>>
             THEN [raised |-> "AssertionError", legal |-> <<>>]
        ELSE LET word_with_most_subs == substitute_spans(item, most_spans.value, d)
             IN  IF word_with_most_subs = <<>>
                 THEN [raised |-> "AssertionError", legal |-> <<>>]
                 ELSE [raised |-> "", legal |-> <<word_with_most_subs>>]

\* Mutant: FORCE is not honoured, the dictionary decides in both modes.
SelectCandidates_dictionary_only(item, combos, cands, d, known, force) ==
    [raised |-> "", legal |-> LegalCandidates(cands, known)]

\* if FORCE: ... else: ...: the legal candidates, or the exception raised.
SelectCandidates(item, combos, cands, d, known, force) ==
    IF force THEN ForcedCandidates(item, combos, d)
    ELSE [raised |-> "", legal |-> LegalCandidates(cands, known)]

\* Mutant: a word with no legal candidate is given those of the word before.
AssignItem_keeping_last(item, legal) ==
    IF legal # <<>> THEN represent_strings(legal)
    ELSE IF legal_candidates # <<>> THEN represent_strings(legal_candidates)
    ELSE item

\* Mutant: the emitted word is lowercased, as the dictionary has it.
AssignItem_lowercased(item, legal) ==
    IF legal # <<>> THEN Lower(represent_strings(legal)) ELSE item

\* Mutant: the assignment without its `if legal_candidates` guard.
AssignItem_unguarded(item, legal) == represent_strings(legal)

\* if legal_candidates: item = represent_strings(legal_candidates)
AssignItem(item, legal) ==
    IF legal # <<>> THEN represent_strings(legal) ELSE item

\* What one pass of the loop body computes for a special word.
SpecialWord(item, specials, known, force) ==
    LET d == FindSpans(<<>>, specials, 1, item)
        combos == combinations_any_length(DictKeys(d))
        cands == [j \in 1..Len(combos) |-> substitute_spans(item, combos[j], d)]
        sel == SelectCandidates(item, combos, cands, d, known, force)
    IN  [spans_to_substitutions |-> d,
         span_combinations |-> combos,
         candidates |-> cands,
         raised |-> sel.raised,
         legal_candidates |-> sel.legal,
         item |-> AssignItem(item, sel.legal)]

\* One pass of the loop body on an item, as a function of what it reads:
\* the exception it dies of ("" if none) and the item it appends.
Emitted(item, specials, known, force) ==
    IF re_match_word(item) /\ ContainsPotentialSpecials(item, specials)
    THEN LET r == SpecialWord(item, specials, known, force)
         IN  [raised |-> r.raised, item |-> r.item]
    ELSE [raised |-> "", item |-> item]

-----------------------------------------------------------------------------
(* main as a state machine *)

Init ==
    /\ text \in Texts
    /\ FORCE \in BOOLEAN
    /\ known_words \in KnownWordChoices
    /\ specials_to_regex_alts = SpecialsToRegexAlts(LANGUAGE_SPECIALS)
    /\ lines = <<>>
    /\ li = 1
    /\ items = <<>>
    /\ ii = 1
    /\ processed_line = <<>>
    /\ processed_lines = <<>>
    /\ new_text = <<>>
    /\ cur_item = <<>>
    /\ out_item = <<>>
    /\ is_word = FALSE
    /\ is_special_word = FALSE
    /\ spans_to_substitutions = <<>>
    /\ span_combinations = <<>>
    /\ candidates = <<>>
    /\ legal_candidates = <<>>
    /\ pc = "start"
    /\ exc = ""
    /\ test_iterable = <<>>
    /\ test_key = "None"
    /\ test_result = ReturnNone

\* lines = text.splitlines(); processed_lines = []
main_splitlines ==
    /\ pc = "start"
    /\ lines' = splitlines(text)
    /\ processed_lines' = <<>>
    /\ li' = 1
    /\ pc' = "for_line"
    /\ UNCHANGED << text, FORCE, known_words,
                    specials_to_regex_alts, items, ii, processed_line,
                    new_text, cur_item, out_item, is_word,
                    is_special_word, spans_to_substitutions,
                    span_combinations, candidates, legal_candidates, exc >>
    /\ UNCHANGED test_vars

\* for line in lines: processed_line = []; items = re.split(word_regex, line)
main_split_line ==
    /\ pc = "for_line"
    /\ li <= Len(lines)
    /\ processed_line' = <<>>
    /\ items' = re_split(lines[li])
    /\ ii' = 1
    /\ pc' = "for_item"
    /\ UNCHANGED << text, FORCE, known_words,
                    specials_to_regex_alts, lines, li, processed_lines,
                    new_text, cur_item, out_item, is_word,
                    is_special_word, spans_to_substitutions,
                    span_combinations, candidates, legal_candidates, exc >>
    /\ UNCHANGED test_vars

\* One pass of the loop body: what it does to the locals of main.
main_item_pass ==
    /\ pc = "for_item"
    /\ ii <= Len(items)
    /\ LET item == items[ii]
           word == re_match_word(item)
           special == word /\ ContainsPotentialSpecials(item, specials_to_regex_alts)
           r == SpecialWord(item, specials_to_regex_alts, known_words, FORCE)
       IN  /\ cur_item' = item
           /\ is_word' = word
           /\ is_special_word' = special
           /\ IF special
              THEN /\ spans_to_substitutions' = r.spans_to_substitutions
                   /\ span_combinations' = r.span_combinations
                   /\ candidates' = r.candidates
                   /\ IF r.raised # ""
                      THEN /\ exc' = r.raised
                           /\ pc' = "crashed"
                           /\ UNCHANGED << legal_candidates, out_item,
                                           processed_line, ii >>
                      ELSE /\ legal_candidates' = r.legal_candidates
                           /\ out_item' = r.item
                           /\ processed_line' = Append(processed_line, r.item)
                           /\ ii' = ii + 1
                           /\ UNCHANGED << pc, exc >>
              ELSE /\ out_item' = item
                   /\ processed_line' = Append(processed_line, item)
                   /\ ii' = ii + 1
                   /\ UNCHANGED << spans_to_substitutions, span_combinations,
                                   candidates, legal_candidates, pc, exc >>
    /\ UNCHANGED << text, FORCE, lines, li, items, processed_lines,
                    new_text >>
    /\ UNCHANGED test_vars

\* Mutant: the case-adjusted letter is written back into the map, and the
\* words tried are added to the dictionary.
main_item_writes_back ==
    /\ main_item_pass
    /\ specials_to_regex_alts' =
           [j \in 1..Len(specials_to_regex_alts) |->
               [letter |-> IF is_special_word' /\ AnyUpper(cur_item')
                           THEN Upper(specials_to_regex_alts[j].letter)
                           ELSE Lower(specials_to_regex_alts[j].letter),
                pattern |-> specials_to_regex_alts[j].pattern]]
    /\ known_words' = known_words \cup {candidates'[j] : j \in 1..Len(candidates')}

\* for item in items: one pass of the loop body.  It reads the map and the
\* dictionary and assigns to neither.
main_item ==
    /\ main_item_pass
    /\ UNCHANGED << known_words, specials_to_regex_alts >>

\* new_line = "".join(processed_line); processed_lines.append(new_line)
main_join_line ==
    /\ pc = "for_item"
    /\ ii > Len(items)
    /\ processed_lines' = Append(processed_lines, Flatten(processed_line))
    /\ li' = li + 1
    /\ pc' = "for_line"
    /\ UNCHANGED << text, FORCE, known_words,
                    specials_to_regex_alts, lines, items, ii, processed_line,
                    new_text, cur_item, out_item, is_word,
                    is_special_word, spans_to_substitutions,
                    span_combinations, candidates, legal_candidates, exc >>
    /\ UNCHANGED test_vars

\* new_text = "\n".join(processed_lines)
main_join_text ==
    /\ pc = "for_line"
    /\ li > Len(lines)
    /\ new_text' = Join(<<"\n">>, processed_lines)
    /\ pc' = "done"
    /\ UNCHANGED << text, FORCE, known_words,
                    specials_to_regex_alts, lines, li, items, ii,
                    processed_line, processed_lines, cur_item, out_item,
                    is_word, is_special_word, spans_to_substitutions,
                    span_combinations, candidates, legal_candidates, exc >>
    /\ UNCHANGED test_vars

Next ==
    \/ main_splitlines
    \/ main_split_line
    \/ main_item
    \/ main_join_line
    \/ main_join_text

Spec == Init /\ [][Next]_vars

-----------------------------------------------------------------------------
(* The functions on their own: the calls of tests/test_functions.py, and   *)
(* the forced-mode branch of main on lists of combinations that the        *)
(* combination generator of main does not produce.                         *)

\* Python tuples of ints, the elements of the iterables under test.
Tuples == {<<>>, <<1>>, <<1, 2>>, <<1, 3>>, <<1, 2, 3>>}

\* The lists of at most n elements of the set S.
ListsUpTo(S, n) == UNION {[1..m -> S] : m \in 0..n}

Iterables == ListsUpTo(Tuples, MaxIterable)

\* The spans found in a word under the special letters of the language.
SpansOf(item) == FindSpans(<<>>, SpecialsToRegexAlts(LANGUAGE_SPECIALS), 1, item)

\* The texts that are one word token holding at least one span.
SelectionWords ==
    {t \in Texts : re_split(t) = << <<>>, t, <<>> >> /\ SpansOf(t) # <<>>}

\* The lists of distinct combinations of spans of a word handed to the
\* selection.
CombinationLists(item) ==
    LET combos == combinations_any_length(DictKeys(SpansOf(item)))
    IN  {l \in ListsUpTo({combos[j] : j \in 1..Len(combos)}, MaxCombinations) :
            \A j, k \in 1..Len(l) : l[j] = l[k] => j = k}

InitCalls ==
    /\ text = <<>>
    /\ FORCE = TRUE
    /\ known_words = {}
    /\ specials_to_regex_alts = SpecialsToRegexAlts(LANGUAGE_SPECIALS)
    /\ lines = <<>>
    /\ li = 1
    /\ items = <<>>
    /\ ii = 1
    /\ processed_line = <<>>
    /\ processed_lines = <<>>
    /\ new_text = <<>>
    /\ out_item = <<>>
    /\ is_word = FALSE
    /\ is_special_word = FALSE
    /\ candidates = <<>>
    /\ legal_candidates = <<>>
    /\ exc = ""
    /\ test_result = ReturnNone
    /\ \/ /\ pc = "test_distinct_highest_element"
          /\ test_iterable \in Iterables
          /\ test_key \in {"None", "len"}
          /\ cur_item = <<>>
          /\ spans_to_substitutions = <<>>
          /\ span_combinations = <<>>
       \/ /\ pc = "forced_selection"
          /\ test_iterable = <<>>
          /\ test_key = "len"
          /\ cur_item \in SelectionWords
          /\ spans_to_substitutions = SpansOf(cur_item)
          /\ span_combinations \in CombinationLists(cur_item)

\* assert distinct_highest_element(iterable, key) == element
test_distinct_highest_element ==
    /\ pc = "test_distinct_highest_element"
    /\ test_result' = distinct_highest_element(test_iterable, test_key)
    /\ pc' = "test_done"
    /\ UNCHANGED << text, FORCE, known_words, specials_to_regex_alts, lines,
                    li, items, ii, processed_line, processed_lines, new_text,
                    cur_item, out_item, is_word, is_special_word,
                    spans_to_substitutions, span_combinations, candidates,
                    legal_candidates, exc, test_iterable, test_key >>

\* The candidates of the combinations and the `if FORCE:` branch on them.
forced_selection ==
    /\ pc = "forced_selection"
    /\ LET cands == [j \in 1..Len(span_combinations) |->
                        substitute_spans(cur_item, span_combinations[j],
                                         spans_to_substitutions)]
           sel == SelectCandidates(cur_item, span_combinations, cands,
                                   spans_to_substitutions, known_words, FORCE)
       IN  /\ candidates' = cands
           /\ is_word' = TRUE
           /\ is_special_word' = TRUE
           /\ IF sel.raised # ""
              THEN /\ exc' = sel.raised
                   /\ pc' = "crashed"
                   /\ UNCHANGED << legal_candidates, out_item >>
              ELSE /\ legal_candidates' = sel.legal
                   /\ out_item' = AssignItem(cur_item, sel.legal)
                   /\ pc' = "selected"
                   /\ UNCHANGED exc
    /\ UNCHANGED << text, FORCE, known_words, specials_to_regex_alts, lines,
                    li, items, ii, processed_line, processed_lines, new_text,
                    cur_item, spans_to_substitutions, span_combinations >>
    /\ UNCHANGED test_vars

NextCalls ==
    \/ test_distinct_highest_element
    \/ forced_selection

SpecCalls == InitCalls /\ [][NextCalls]_vars

-----------------------------------------------------------------------------
(* Vocabulary of the properties *)

\* main has just finished a pass of the loop body: cur_item is the item it
\* took, out_item the item it appended.
ItemDone == pc = "for_item" /\ ii > 1

\* The pass was over a word in which the Span Finder found N spans.
NSpans == Len(spans_to_substitutions)

WordDone == ItemDone /\ is_special_word

Range(seq) == { seq[j] : j \in 1..Len(seq) }

\* A candidate is legal: it or its lowercased form is a known word.
LegalInDictionary(c) == c \in known_words \/ Lower(c) \in known_words

-----------------------------------------------------------------------------
\* C1: in dictionary mode, a word with at least one span none of whose
\* candidates is legal is emitted as the original word, unchanged.
C1_NoLegalCandidateKeepsWord ==
    (/\ WordDone
     /\ ~FORCE
     /\ NSpans >= 1
     /\ \A c \in Range(candidates) : ~LegalInDictionary(c))
    => (out_item = cur_item /\ processed_line[ii - 1] = cur_item)

C1_Witness ==
    /\ WordDone
    /\ ~FORCE
    /\ NSpans >= 2
    /\ known_words # {}
    /\ \A c \in Range(candidates) : ~LegalInDictionary(c)
    /\ out_item = cur_item

-----------------------------------------------------------------------------
\* C2: in dictionary mode the candidates the output of a word is built from
\* are exactly the generated candidates c with c or lowercase(c) in
\* KnownWordSet: none is left out, no illegal one is used.
C2_LegalCandidatesExact ==
    (WordDone /\ ~FORCE)
    => /\ Range(legal_candidates)
              = { c \in Range(candidates) : LegalInDictionary(c) }
       /\ legal_candidates # <<>>
              => out_item = represent_strings(legal_candidates)

\* A word with a candidate that is legal only in lowercased form, next to an
\* illegal one.
C2_Witness ==
    /\ WordDone
    /\ ~FORCE
    /\ \E c \in Range(candidates) : c \notin known_words /\ Lower(c) \in known_words
    /\ \E c \in Range(candidates) : ~LegalInDictionary(c)
    /\ out_item = represent_strings(legal_candidates)

-----------------------------------------------------------------------------
\* Vocabulary of C3.
Bracketed(strings) == <<"[">> \o Join(<<"|">>, strings) \o <<"]">>

Represented(strings) ==
    IF Len(strings) = 1 THEN strings[1] ELSE Bracketed(strings)

\* C3: represent_strings returns the single string itself for one string and
\* '[' + the strings joined by '|' + ']' for two or more; so a word with one
\* legal candidate is emitted as that candidate and a word with several as
\* the bracketed list of all of them.
C3_RepresentStrings ==
    WordDone
    => /\ \A j \in 1..Len(candidates) : \A k \in j..Len(candidates) :
              represent_strings(SubSeq(candidates, j, k))
                  = Represented(SubSeq(candidates, j, k))
       /\ legal_candidates # <<>> => out_item = Represented(legal_candidates)

C3_Witness ==
    /\ WordDone
    /\ Len(legal_candidates) >= 2
    /\ out_item = Bracketed(legal_candidates)

-----------------------------------------------------------------------------
\* Vocabulary of C4.
RECURSIVE AllSubstitutedFrom(_, _, _)
\* The word from 0-based position pos on, every span of d replaced.
AllSubstitutedFrom(word, d, pos) ==
    IF pos >= Len(word) THEN <<>>
    ELSE IF \E j \in 1..Len(d) : d[j].key[1] = pos
         THEN LET j == CHOOSE j \in 1..Len(d) : d[j].key[1] = pos
              IN  d[j].val \o AllSubstitutedFrom(word, d, d[j].key[2])
    ELSE <<word[pos + 1]>> \o AllSubstitutedFrom(word, d, pos + 1)

AllSubstituted == AllSubstitutedFrom(cur_item, spans_to_substitutions, 0)

\* C4: in forced mode a word with N >= 1 spans is emitted as the candidate
\* with all N spans substituted, whatever KnownWordSet contains.
C4_ForcedSubstitutesAllSpans ==
    (WordDone /\ FORCE /\ NSpans >= 1)
    => /\ out_item = AllSubstituted
       /\ processed_line[ii - 1] = AllSubstituted

\* Two spans or more, and the emitted word is not legal.
C4_Witness ==
    /\ WordDone
    /\ FORCE
    /\ NSpans >= 2
    /\ known_words # {}
    /\ out_item = AllSubstituted
    /\ out_item # cur_item
    /\ ~LegalInDictionary(out_item)

-----------------------------------------------------------------------------
\* C5: restore is total: for every text, every KnownWordSet and both modes
\* main reaches the end of the text; no word raises an error that aborts the
\* rest of the text, a word that passes the pre-check but has no span in
\* forced mode included.
C5_RestoreIsTotal == pc # "crashed" /\ exc = ""

-----------------------------------------------------------------------------
\* Vocabulary of C6.
IsWordToken(t) == t # <<>> /\ \A k \in 1..Len(t) : IsWordChar(t[k])

IsNonWordToken(t) == \A k \in 1..Len(t) : ~IsWordChar(t[k])

-----------------------------------------------------------------------------
\* Vocabulary of C7.
NoAlternativeSpelling(s) ==
    \A j \in 1..Len(specials_to_regex_alts) :
        re_finditer(specials_to_regex_alts[j].pattern, s) = <<>>

\* C7: a text with no occurrence of any alternative-spelling pattern is
\* returned exactly as it is, its line separators and a trailing line
\* separator included, in both modes.
C7_CleanTextUnchanged ==
    (pc = "done" /\ NoAlternativeSpelling(text)) => new_text = text

-----------------------------------------------------------------------------
\* Vocabulary of C8.
RECURSIVE LineSeparatorsFrom(_, _)
\* The line separators of s from 1-based position i on, in order.
LineSeparatorsFrom(s, i) ==
    IF i > Len(s) THEN <<>>
    ELSE IF s[i] = "\r" /\ i < Len(s) /\ s[i + 1] = "\n"
         THEN << <<"\r", "\n">> >> \o LineSeparatorsFrom(s, i + 2)
    ELSE IF s[i] \in {"\r", "\n"}
         THEN << <<s[i]>> >> \o LineSeparatorsFrom(s, i + 1)
    ELSE LineSeparatorsFrom(s, i + 1)

RECURSIVE JoinWithSeparators(_, _)
\* strs[1] seps[1] strs[2] seps[2] ... strs[n]
JoinWithSeparators(strs, seps) ==
    IF strs = <<>> THEN <<>>
    ELSE IF Len(strs) = 1 THEN strs[1]
    ELSE strs[1] \o seps[1] \o JoinWithSeparators(Tail(strs), Tail(seps))

\* C8: the output has as many lines as the input, and the processed lines
\* are rejoined with the line separators that separated them in the input.
C8_LineSeparatorsKept ==
    pc = "done"
    => /\ Len(processed_lines) = Len(lines)
       /\ new_text = JoinWithSeparators(processed_lines,
                                        LineSeparatorsFrom(text, 1))

-----------------------------------------------------------------------------
\* Vocabulary of C9.
EmittedInMode(force) ==
    Emitted(cur_item, specials_to_regex_alts, known_words, force)

\* C9: for a word with exactly one span whose fully substituted form is
\* legal, forced mode and dictionary mode emit the same token.
C9_ForcedAgreesWithDictionary ==
    (WordDone /\ NSpans = 1 /\ LegalInDictionary(AllSubstituted))
    => /\ EmittedInMode(TRUE).raised = ""
       /\ EmittedInMode(FALSE).raised = ""
       /\ out_item = EmittedInMode(FORCE).item
       /\ out_item = EmittedInMode(~FORCE).item

\* Such a word, capitalised, legal through its lowercased form only.
C9_Witness ==
    /\ WordDone
    /\ NSpans = 1
    /\ LegalInDictionary(AllSubstituted)
    /\ AllSubstituted \notin known_words
    /\ out_item = AllSubstituted
    /\ out_item # cur_item

-----------------------------------------------------------------------------
\* Vocabulary of C10.
CombinationsYielded == is_special_word /\ (ItemDone \/ pc = "crashed")

\* C10: for N distinct spans (N >= 0) combinations_any_length yields exactly
\* 2^N - 1 combinations, each non-empty, pairwise distinct as sets, and every
\* non-empty subset of the spans exactly once.
C10_CombinationsComplete ==
    CombinationsYielded
    => LET spans == Range(DictKeys(spans_to_substitutions))
           n == Len(span_combinations)
       IN  /\ Cardinality(spans) = NSpans
           /\ n = 2^NSpans - 1
           /\ \A j \in 1..n :
                  /\ span_combinations[j] # <<>>
                  /\ Cardinality(Range(span_combinations[j]))
                         = Len(span_combinations[j])
           /\ \A j, k \in 1..n :
                  j # k => Range(span_combinations[j]) # Range(span_combinations[k])
           /\ \A S \in (SUBSET spans) \ {{}} :
                  Cardinality({ j \in 1..n : Range(span_combinations[j]) = S }) = 1

C10_Witness ==
    /\ CombinationsYielded
    /\ NSpans = MaxPieces
    /\ Len(span_combinations) = 2^MaxPieces - 1

\* The collection of no span: nothing is yielded.
C10_WitnessEmpty ==
    /\ CombinationsYielded
    /\ NSpans = 0
    /\ span_combinations = <<>>

-----------------------------------------------------------------------------
\* Vocabulary of C11.
\* No alternative spelling matches anywhere in the item.
NoSpanIn(item) ==
    \A j \in 1..Len(specials_to_regex_alts) :
        \A pos \in 0..Len(item) :
            ~MatchAt(specials_to_regex_alts[j].pattern, item, pos)

\* The pass over cur_item has ended, by an append or by an exception.
PassEnded == ItemDone \/ pc = "crashed"

\* C11: a word token in which the Span Finder finds no span yields no
\* combinations and no candidates and is emitted unchanged, in dictionary
\* mode and in forced mode alike.
C11_NoSpanWordUnchanged ==
    (PassEnded /\ is_word /\ NoSpanIn(cur_item))
    => /\ pc # "crashed"
       /\ out_item = cur_item
       /\ processed_line[ii - 1] = cur_item
       /\ is_special_word => (span_combinations = <<>> /\ candidates = <<>>)

-----------------------------------------------------------------------------
\* Vocabulary of C12.
\* The entries of the dict d whose span is in the set S.
RestrictedTo(d, S) == SelectSeq(d, LAMBDA e : e.key \in S)

\* The word with the spans of S replaced, read off position by position in
\* the coordinates of the word.
SubstitutedOnly(word, d, S) == AllSubstitutedFrom(word, RestrictedTo(d, S), 0)

\* What the word loses in length when the spans of S are replaced.
Shrinkage(d, S) ==
    LET e == RestrictedTo(d, S)
        lost[j \in 0..Len(e)] ==
            IF j = 0 THEN 0
            ELSE lost[j - 1] + (e[j].key[2] - e[j].key[1]) - Len(e[j].val)
    IN  lost[Len(e)]

\* C12: for a word and a set S of pairwise non-overlapping spans,
\* substitute_spans returns the word with every span of S replaced by its
\* replacement and every character outside the spans kept, in order: the
\* same string as substituting the spans one at a time in the coordinates of
\* the original word.
C12_SubstituteSpans ==
    (PassEnded /\ is_special_word)
    => /\ Len(candidates) = Len(span_combinations)
       /\ substitute_spans(cur_item, <<>>, spans_to_substitutions) = cur_item
       /\ \A j \in 1..Len(span_combinations) :
              /\ candidates[j]
                     = SubstitutedOnly(cur_item, spans_to_substitutions,
                                       Range(span_combinations[j]))
              /\ Len(candidates[j])
                     = Len(cur_item) - Shrinkage(spans_to_substitutions,
                                                 Range(span_combinations[j]))

\* Two spans replaced at once, the first of them by a shorter string, so
\* that the second one has moved when the first is replaced first.
C12_Witness ==
    /\ PassEnded
    /\ is_special_word
    /\ \E j \in 1..Len(span_combinations) :
          /\ Len(span_combinations[j]) >= 2
          /\ Len(candidates[j]) <= Len(cur_item) - 2
          /\ candidates[j]
                 = SubstitutedOnly(cur_item, spans_to_substitutions,
                                   Range(span_combinations[j]))

-----------------------------------------------------------------------------
\* Vocabulary of C13.
\* The canonical letter whose pattern matches the item at the span.
CanonicalLetterAt(item, span) ==
    LET j == CHOOSE j \in 1..Len(specials_to_regex_alts) :
                 /\ MatchAt(specials_to_regex_alts[j].pattern, item, span[1])
                 /\ Len(specials_to_regex_alts[j].pattern) = span[2] - span[1]
    IN  specials_to_regex_alts[j].letter

ExpectedReplacement(item, span) ==
    IF \E k \in (span[1] + 1)..span[2] : IsUpper1(item[k])
    THEN Upper(CanonicalLetterAt(item, span))
    ELSE Lower(CanonicalLetterAt(item, span))

\* C13: the replacement stored for the span of every match is the canonical
\* letter in uppercase if the matched substring holds an uppercase character
\* and the canonical letter in lowercase otherwise, whatever the case of the
\* matches found before it for the same letter.
C13_ReplacementCase ==
    (PassEnded /\ is_special_word)
    => \A j \in 1..Len(spans_to_substitutions) :
           spans_to_substitutions[j].val
               = ExpectedReplacement(cur_item, spans_to_substitutions[j].key)

-----------------------------------------------------------------------------
-----------------------------------------------------------------------------
\* Vocabulary of C15.
TestDone == pc = "test_done"

\* The key of the j-th element is strictly greater than every other one's.
StrictlyHighest(j) ==
    \A k \in (1..Len(test_iterable)) \ {j} :
        KeyLess(test_key, test_iterable[k], test_iterable[j])

\* C15: distinct_highest_element returns the element whose key (or value,
\* when key is None) is strictly greater than that of every other element
\* whenever there is one, and the only element of a one-element iterable.
C15_DistinctHighestReturned ==
    TestDone
    => /\ \A j \in 1..Len(test_iterable) :
              StrictlyHighest(j) => test_result = Return(test_iterable[j])
       /\ Len(test_iterable) = 1 => test_result = Return(test_iterable[1])

\* The strictly highest element stands before the end of the iterable.
C15_Witness ==
    /\ TestDone
    /\ \E j \in 1..(Len(test_iterable) - 1) :
          /\ StrictlyHighest(j)
          /\ test_result = Return(test_iterable[j])

-----------------------------------------------------------------------------
\* Vocabulary of C16.
\* The greatest key is that of two elements or more.
HighestShared ==
    \E j, k \in 1..Len(test_iterable) :
        /\ j # k
        /\ \A m \in 1..Len(test_iterable) :
               ~KeyLess(test_key, test_iterable[j], test_iterable[m])
        /\ ~KeyLess(test_key, test_iterable[k], test_iterable[j])

\* C16: distinct_highest_element returns None, without raising, whenever
\* the greatest key (or value, when key is None) is attained by more than
\* one element, with a key function and with key None alike.
C16_SharedHighestGivesNone ==
    (TestDone /\ HighestShared) => test_result = ReturnNone

-----------------------------------------------------------------------------
\* C17: distinct_highest_element called on an empty iterable raises an
\* IndexError and returns no element.
C17_EmptyRaisesIndexError ==
    (TestDone /\ test_iterable = <<>>)
    => /\ test_result.raised = "IndexError"
       /\ ~test_result.isNone
       /\ test_result.value = <<>>

C17_Witness ==
    /\ TestDone
    /\ test_iterable = <<>>
    /\ test_result = Raise("IndexError")

-----------------------------------------------------------------------------
\* Vocabulary of C18.
SelectionDone == pc = "selected" \/ (pc = "crashed" /\ candidates # <<>>)

\* The positions of the combinations with the most spans.
MostSpansAt ==
    {j \in 1..Len(span_combinations) :
        \A k \in 1..Len(span_combinations) :
            Len(span_combinations[k]) <= Len(span_combinations[j])}

FirstOfMostSpans ==
    CHOOSE j \in MostSpansAt : \A k \in MostSpansAt : j <= k

-----------------------------------------------------------------------------
\* Vocabulary of C19.
LineSplit == pc = "for_item"

\* C19: the tokens of a line alternate between non-word tokens and word
\* tokens, beginning and ending with a non-word token; the word tokens are
\* maximal runs of word characters (no two of them are adjacent, the
\* non-word token between two of them is not empty); concatenated
\* unmodified, in order, the tokens give back exactly the line.
C19_TokensAlternateAndRebuildLine ==
    LineSplit
    => /\ Flatten(items) = lines[li]
       /\ Len(items) % 2 = 1
       /\ \A j \in 1..Len(items) :
              IF j % 2 = 0
              THEN IsWordToken(items[j])
              ELSE /\ IsNonWordToken(items[j])
                   /\ (1 < j /\ j < Len(items)) => items[j] # <<>>

\* A line of two words: an empty token, a word, a separator, a word, an
\* empty token.
C19_Witness ==
    /\ LineSplit
    /\ Len(items) = 5
    /\ items[1] = <<>>
    /\ items[3] # <<>>
    /\ items[5] = <<>>
    /\ Flatten(items) = lines[li]

-----------------------------------------------------------------------------
\* Vocabulary of C20.
\* The map sends every canonical letter, lowercased, to its pattern.
MapAsBuilt ==
    /\ Len(specials_to_regex_alts) = Len(LANGUAGE_SPECIALS)
    /\ \A j \in 1..Len(LANGUAGE_SPECIALS) :
           /\ specials_to_regex_alts[j].letter = Lower(LANGUAGE_SPECIALS[j].k)
           /\ specials_to_regex_alts[j].pattern = CaseFold(LANGUAGE_SPECIALS[j].v)

\* C20: processing a text, in either mode, leaves the map of special
\* letters and the set of known words unchanged: no step assigns to either,
\* so after every token the map still sends each canonical letter to its
\* original pattern and the word set has the members it had at the start.
C20_MapAndWordsUnchanged ==
    /\ []MapAsBuilt
    /\ [][/\ specials_to_regex_alts' = specials_to_regex_alts
          /\ known_words' = known_words]_vars

\* A capitalised word with a span has been processed against a dictionary
\* that is not empty.
C20_Witness ==
    /\ WordDone
    /\ NSpans >= 1
    /\ AnyUpper(cur_item)
    /\ candidates # <<>>
    /\ known_words # {}
    /\ MapAsBuilt

-----------------------------------------------------------------------------
-----------------------------------------------------------------------------
\* Vocabulary of C22.
\* The place of a span in the order the spans were stored.
InsertionIndex(span) ==
    CHOOSE i \in 1..NSpans : spans_to_substitutions[i].key = span

\* The places of the spans of a combination.
InsertionIndices(combination) ==
    [m \in 1..Len(combination) |-> InsertionIndex(combination[m])]

StrictlyIncreasing(ns) == \A m \in 1..(Len(ns) - 1) : ns[m] < ns[m + 1]

\* C22: combinations_any_length yields the combinations in non-decreasing
\* size; within one size in the lexicographic order of the places of their
\* spans in insertion order; and inside each combination the spans stand in
\* insertion order.
C22_CombinationsOrdered ==
    CombinationsYielded
    => /\ \A j \in 1..Len(span_combinations) :
              StrictlyIncreasing(InsertionIndices(span_combinations[j]))
       /\ \A j \in 1..(Len(span_combinations) - 1) :
              LET this == span_combinations[j]
                  next == span_combinations[j + 1]
              IN  \/ Len(this) < Len(next)
                  \/ /\ Len(this) = Len(next)
                     /\ TupleLess(InsertionIndices(this), InsertionIndices(next))

\* Three spans, stored in another order than that of their positions in the
\* word: 2^3 - 1 combinations of sizes 1, 1, 1, 2, 2, 2, 3.
C22_Witness ==
    /\ CombinationsYielded
    /\ NSpans = 3
    /\ \E i \in 1..2 : spans_to_substitutions[i + 1].key[1]
                           < spans_to_substitutions[i].key[1]
    /\ Len(span_combinations) = 7
    /\ Len(span_combinations[3]) = 1
    /\ Len(span_combinations[4]) = 2
    /\ Len(span_combinations[7]) = 3

-----------------------------------------------------------------------------
\* Vocabulary of C23.
\* The spans of a combination in the order the loop applies them.
ApplicationOrder(spans) == SortedReverse(spans)

\* The working string of substitute_spans when the loop has applied the
\* first m spans of that order.
WorkingString(string, spans, d, m) ==
    SubstituteEach(string, SubSeq(ApplicationOrder(spans), 1, m), d)

\* C23: loop invariant of substitute_spans on non-overlapping spans: when a
\* span [start, end) is applied, the first `end` characters of the working
\* string are the first `end` characters of the original word: what was
\* replaced before changed the string at or after `end` only.
C23_SubstituteSpansLoopInvariant ==
    CombinationsYielded
    => \A j \in 1..Len(span_combinations) :
           \A m \in 0..(Len(span_combinations[j]) - 1) :
               LET end == ApplicationOrder(span_combinations[j])[m + 1][2]
                   working == WorkingString(cur_item, span_combinations[j],
                                            spans_to_substitutions, m)
               IN  /\ end <= Len(working)
                   /\ SliceTo(working, end) = SliceTo(cur_item, end)

\* A second span is applied to a working string that the first replacement
\* has made shorter than the word.
C23_Witness ==
    /\ CombinationsYielded
    /\ \E j \in 1..Len(span_combinations) :
          /\ Len(span_combinations[j]) >= 2
          /\ LET working == WorkingString(cur_item, span_combinations[j],
                                          spans_to_substitutions, 1)
                 end == ApplicationOrder(span_combinations[j])[2][2]
             IN  /\ Len(working) < Len(cur_item)
                 /\ SliceTo(working, end) = SliceTo(cur_item, end)

-----------------------------------------------------------------------------
\* C24: the pre-check agrees with the Span Finder: a word token passes the
\* pre-check if and only if at least one span is found in it; a token in
\* which a pattern matches is never passed through, and a token that passes
\* has N >= 1 spans.
C24_PreCheckAgreesWithSpanFinder ==
    (PassEnded /\ is_word)
    => /\ is_special_word <=> ~NoSpanIn(cur_item)
       /\ is_special_word => NSpans >= 1

-----------------------------------------------------------------------------
\* Vocabulary of C25.
\* The span is a key of the assignment and lies within the word.
ValidSpan(span, d, word) ==
    /\ DictHas(d, span)
    /\ 0 <= span[1]
    /\ span[1] < span[2]
    /\ span[2] <= Len(word)

\* C25: every span substitute_spans is called with in main is a key of the
\* assignment built for the word and satisfies 0 <= start < end <= len(word),
\* so that every call returns a candidate.
C25_SpansValid ==
    CombinationsYielded
    => /\ \A j \in 1..Len(span_combinations) :
              \A m \in 1..Len(span_combinations[j]) :
                  ValidSpan(span_combinations[j][m], spans_to_substitutions,
                            cur_item)
       /\ Len(candidates) = Len(span_combinations)
       /\ exc # "KeyError"

\* A word that is spans from its first character to its last.
C25_Witness ==
    /\ CombinationsYielded
    /\ NSpans >= 2
    /\ \E j \in 1..Len(span_combinations) :
          /\ Len(span_combinations[j]) = NSpans
          /\ \E m \in 1..NSpans : span_combinations[j][m][1] = 0
          /\ \E m \in 1..NSpans : span_combinations[j][m][2] = Len(cur_item)
    /\ Len(candidates) = Len(span_combinations)

-----------------------------------------------------------------------------
\* Vocabulary of C26.
NoDuplicate(seq) == \A j, k \in 1..Len(seq) : seq[j] = seq[k] => j = k

\* C26: candidates are paired one to one with combinations: every
\* combination yields one candidate, two different combinations of a word
\* never yield the same string, so neither the list of candidates nor the
\* list of legal candidates holds a string twice.
C26_CandidatesDistinct ==
    CombinationsYielded
    => /\ Len(candidates) = Len(span_combinations)
       /\ NoDuplicate(span_combinations)
       /\ NoDuplicate(candidates)
       /\ ItemDone => NoDuplicate(legal_candidates)

-----------------------------------------------------------------------------
\* Vocabulary of C27.
\* The positions of the combinations that hold all N spans.
FullCombinationsAt ==
    {j \in 1..Len(span_combinations) : Len(span_combinations[j]) = NSpans}

\* C27: in forced mode, for a word with N >= 1 spans, exactly one
\* combination has the size N and every other one is smaller, so that
\* distinct_highest_element(span_combinations, key=len) returns it, not
\* None, and neither assertion of the forced branch fails.
C27_ForcedMaximumUnique ==
    (PassEnded /\ is_special_word /\ FORCE /\ NSpans >= 1)
    => /\ Cardinality(FullCombinationsAt) = 1
       /\ \A j \in 1..Len(span_combinations) :
              Len(span_combinations[j]) <= NSpans
       /\ \A j \in FullCombinationsAt :
              /\ distinct_highest_element(span_combinations, "len")
                     = Return(span_combinations[j])
              /\ legal_candidates = <<candidates[j]>>
              /\ candidates[j] # <<>>
       /\ pc # "crashed"
       /\ exc = ""

\* A word of as many spans as the texts allow, all replaced.
C27_Witness ==
    /\ WordDone
    /\ FORCE
    /\ NSpans = MaxPieces
    /\ Cardinality(FullCombinationsAt) = 1
    /\ Len(legal_candidates) = 1
    /\ out_item = legal_candidates[1]
    /\ out_item # cur_item

-----------------------------------------------------------------------------
\* C28: every candidate of a word comes from a non-empty combination, the
\* word with nothing replaced is not among the alternatives; hence in
\* dictionary mode a word that is itself a known word and has a legal
\* candidate is replaced by the legal candidates only: the original spelling
\* does not appear in the emitted token.
C28_OriginalSpellingNotOffered ==
    /\ CombinationsYielded
       => \A j \in 1..Len(span_combinations) : span_combinations[j] # <<>>
    /\ (WordDone /\ ~FORCE /\ cur_item \in known_words /\ legal_candidates # <<>>)
       => /\ out_item = represent_strings(legal_candidates)
          /\ cur_item \notin Range(legal_candidates)
          /\ out_item # cur_item

-----------------------------------------------------------------------------
\* Vocabulary of C29.
\* The candidates that are legal, in the order of their combinations.
LegalInGenerationOrder == SelectSeq(candidates, LegalInDictionary)

\* C29: in dictionary mode the token emitted for a word token has one of
\* three shapes: the original token; the one legal candidate; or '[', all
\* k >= 2 legal candidates separated by '|' in the order their combinations
\* were generated, ']', with k <= 2^N - 1.
C29_EmittedShapes ==
    (ItemDone /\ is_word /\ ~FORCE)
    => IF ~is_special_word THEN out_item = cur_item
       ELSE LET k == Len(legal_candidates)
            IN  /\ legal_candidates = LegalInGenerationOrder
                /\ k <= 2^NSpans - 1
                /\ k = 0 => out_item = cur_item
                /\ k = 1 => out_item = legal_candidates[1]
                /\ k >= 2 => out_item = <<"[">> \o Join(<<"|">>, legal_candidates)
                                            \o <<"]">>
                /\ processed_line[ii - 1] = out_item

\* Two different legal candidates, listed in the order of their combinations.
C29_Witness ==
    /\ WordDone
    /\ ~FORCE
    /\ Len(legal_candidates) = 2
    /\ legal_candidates[1] # legal_candidates[2]
    /\ legal_candidates = LegalInGenerationOrder
    /\ out_item = <<"[">> \o legal_candidates[1] \o <<"|">>
                      \o legal_candidates[2] \o <<"]">>

-----------------------------------------------------------------------------
\* Vocabulary of C30.
\* The lists that hold the elements of seq in any order.
PermutationsOf(seq) ==
    { [i \in 1..Len(seq) |-> seq[f[i]]] : f \in Permutations(1..Len(seq)) }

\* C30: the result of substitute_spans does not depend on the order in
\* which the spans are listed: every permutation of a list of distinct
\* spans gives the same string; and the word passed in is not modified.
C30_SubstituteSpansOrderIndependent ==
    CombinationsYielded
    => /\ \A j \in 1..Len(span_combinations) :
              \A spans \in PermutationsOf(span_combinations[j]) :
                  substitute_spans(cur_item, spans, spans_to_substitutions)
                      = candidates[j]
       /\ ItemDone => cur_item = items[ii - 1]
       /\ pc = "crashed" => cur_item = items[ii]

\* The spans of a combination listed last first give the candidate that the
\* combination itself gives, a string shorter than the word.
C30_Witness ==
    /\ CombinationsYielded
    /\ \E j \in 1..Len(span_combinations) :
          LET n == Len(span_combinations[j])
              backwards == [i \in 1..n |-> span_combinations[j][n + 1 - i]]
          IN  /\ n >= 2
              /\ backwards # span_combinations[j]
              /\ backwards # SortedReverse(span_combinations[j])
              /\ substitute_spans(cur_item, backwards, spans_to_substitutions)
                     = candidates[j]
              /\ Len(candidates[j]) < Len(cur_item)
    /\ ItemDone
    /\ cur_item = items[ii - 1]

====
